---- MODULE Spec2Model ----
(***************************************************************************)
(* Model of python3-ldap's ldap3/utils/dn.py: the DN tokenizer, the two    *)
(* validators, the attribute-value escaper, parse_dn and safe_dn.          *)
(*                                                                         *)
(* A Python string is a sequence of one-character strings.  Indices inside *)
(* the helpers are Python's (0-based); s[i] in Python is s[i + 1] here.    *)
(* The NUL character '\00' is written "NUL".  A raised exception is the    *)
(* value "LDAPInvalidDnError" where a function returns a truth value, and  *)
(* the field exc of a record where it returns something else.              *)
(***************************************************************************)
EXTENDS Integers, Sequences, FiniteSets, TLC

VARIABLES input, orig, src, fn, pc, ret, out, escape, strip, dn, rdns, ava, separator, consumed,
          iterator, decompose, remove_space, space_around_equal, separate_rdn,
          components, component, escape_sequence

\* the arguments and the locals of to_dn; components is its list dn
toDnVars == <<iterator, decompose, remove_space, space_around_equal, separate_rdn,
              components, component, escape_sequence>>

vars == <<input, orig, src, fn, pc, ret, out, escape, strip, dn, rdns, ava, separator, consumed,
          iterator, decompose, remove_space, space_around_equal, separate_rdn,
          components, component, escape_sequence>>

(***************************************************************************)
(* Bounds of the explored inputs.                                          *)
(***************************************************************************)
MaxValueLen == 4

MaxDnLen == 5

MaxAvas == 3

\* longest string, and most AVAs in a built DN, of the runs of parse_dn that
\* are followed to their end
MaxLoopDnLen == 4

MaxLoopAvas == 2

MaxToDnLen == 4

(***************************************************************************)
(* Program constants.                                                      *)
(***************************************************************************)
STATE_ANY == 0

STATE_ESCAPE == 1

STATE_ESCAPE_HEX == 2

hexdigits == {"0", "1", "2", "3", "4", "5", "6", "7", "8", "9", "a", "b", "c", "d", "e", "f", "A", "B", "C", "D", "E", "F"}

Letters == {"A", "B", "C", "D", "E", "F", "G", "H", "I", "J", "K", "L", "M", "N", "O", "P", "Q", "R", "S", "T", "U", "V", "W", "X", "Y", "Z", "a", "b", "c", "d", "e", "f", "g", "h", "i", "j", "k", "l", "m", "n", "o", "p", "q", "r", "s", "t", "u", "v", "w", "x", "y", "z"}

Digits == {"0", "1", "2", "3", "4", "5", "6", "7", "8", "9"}

\* line 121 without the hyphen
TypeCharsNoHyphen == Letters \cup Digits

\* the string literal of line 121
TypeChars == Letters \cup Digits \cup {"-"}

\* the string literal of line 124
TypeFirstForbidden == Digits \cup {"-"}

\* the string literal '"#+,;<=>\00' of lines 149 and 197
AnySpecials == {"\"", "#", "+", ",", ";", "<", "=", ">", "NUL"}

\* the string literal ' "#+,;<=>\\\00' of lines 154 and 205
EscapeSpecials == {" ", "\"", "#", "+", ",", ";", "<", "=", ">", "\\", "NUL"}

\* the characters str.strip() removes
Whitespace == {" ", "\t", "\n", "\r"}

(***************************************************************************)
(* Python string primitives.                                               *)
(***************************************************************************)
MinOf(S) == CHOOSE x \in S : \A y \in S : x <= y

MaxOf(S) == CHOOSE x \in S : \A y \in S : x >= y

\* s[lo:hi] for 0 <= lo, 0 <= hi
Slice(s, lo, hi) == SubSeq(s, lo + 1, IF hi > Len(s) THEN Len(s) ELSE hi)

\* s.find(c, start, end) for one character c and 0 <= start, 0 <= end
Find(s, c, start, end) ==
    LET e == IF end > Len(s) THEN Len(s) ELSE end
        hits == {i \in start..(e - 1) : s[i + 1] = c}
    IN  IF hits = {} THEN -1 ELSE MinOf(hits)

\* s.strip()
Strip(s) ==
    LET keep == {i \in 1..Len(s) : s[i] \notin Whitespace}
    IN  IF keep = {} THEN <<>> ELSE SubSeq(s, MinOf(keep), MaxOf(keep))

(***************************************************************************)
(* get_next_ava (lines 86-97).                                             *)
(***************************************************************************)
\* lines 86-97 with "comma >= 0" in line 94
get_next_ava_comma_at_zero(d) ==
    LET comma == Find(d, ",", 0, Len(d))
        plus == Find(d, "+", 0, Len(d))
    IN  IF plus > 0 /\ plus < comma
        THEN IF Find(d, "=", plus, comma) > 0
             THEN [ava |-> Slice(d, 0, plus), separator |-> "+"]
             ELSE [ava |-> Slice(d, 0, comma), separator |-> ","]
        ELSE IF comma >= 0
             THEN [ava |-> Slice(d, 0, comma), separator |-> ","]
             ELSE [ava |-> d, separator |-> ""]

get_next_ava(d) ==
    LET comma == Find(d, ",", 0, Len(d))
        plus == Find(d, "+", 0, Len(d))
    IN  IF plus > 0 /\ plus < comma
        THEN IF Find(d, "=", plus, comma) > 0
             THEN [ava |-> Slice(d, 0, plus), separator |-> "+"]
             ELSE [ava |-> Slice(d, 0, comma), separator |-> ","]
        ELSE IF comma > 0
             THEN [ava |-> Slice(d, 0, comma), separator |-> ","]
             ELSE [ava |-> d, separator |-> ""]

(***************************************************************************)
(* validate_attribute_type (lines 117-127).                                *)
(***************************************************************************)
\* lines 117-127 without the first-character test of line 124
validate_attribute_type_any_first(attribute_type) ==
    IF attribute_type = <<>> THEN "False"
    ELSE IF \E i \in 1..Len(attribute_type) : attribute_type[i] \notin TypeChars
         THEN "LDAPInvalidDnError"
    ELSE "True"

\* lines 117-127 with "return False" in place of the raise of line 122
validate_attribute_type_returns_false(attribute_type) ==
    IF attribute_type = <<>> THEN "False"
    ELSE IF \E i \in 1..Len(attribute_type) : attribute_type[i] \notin TypeChars
         THEN "False"
    ELSE IF attribute_type[1] \in TypeFirstForbidden THEN "LDAPInvalidDnError"
    ELSE "True"

validate_attribute_type(attribute_type) ==
    IF attribute_type = <<>> THEN "False"
    ELSE IF \E i \in 1..Len(attribute_type) : attribute_type[i] \notin TypeChars
         THEN "LDAPInvalidDnError"
    ELSE IF attribute_type[1] \in TypeFirstForbidden THEN "LDAPInvalidDnError"
    ELSE "True"

(***************************************************************************)
(* validate_attribute_value (lines 129-169).                               *)
(***************************************************************************)
\* the loop of lines 145-162 from character i (1-based) in state st;
\* the result is the state after the last character, or -1 for a raise
RECURSIVE ValidateScan(_, _, _)
ValidateScan(v, i, st) ==
    IF i > Len(v) THEN st
    ELSE LET c == v[i]
         IN  IF st = STATE_ANY
             THEN IF c = "\\" THEN ValidateScan(v, i + 1, STATE_ESCAPE)
                  ELSE IF c \in AnySpecials THEN -1
                  ELSE ValidateScan(v, i + 1, STATE_ANY)
             ELSE IF st = STATE_ESCAPE
             THEN IF c \in hexdigits THEN ValidateScan(v, i + 1, STATE_ESCAPE_HEX)
                  ELSE IF c \in EscapeSpecials THEN ValidateScan(v, i + 1, STATE_ANY)
                  ELSE -1
             ELSE IF c \in hexdigits THEN ValidateScan(v, i + 1, STATE_ANY)
                  ELSE -1

\* lines 133-138: the test of line 135 is on the literal 'c', not on the
\* loop variable
HexFormRaises(v) ==
    \/ \E i \in 1..Len(v) : ~("c" \in hexdigits)
    \/ Len(v) % 2 = 0

\* lines 129-169 without the final-state test of lines 166-167
validate_attribute_value_no_final_test(attribute_value) ==
    IF attribute_value = <<>> THEN "False"
    ELSE IF attribute_value[1] = "#" /\ HexFormRaises(attribute_value) THEN "LDAPInvalidDnError"
    ELSE IF attribute_value[1] = " " THEN "LDAPInvalidDnError"
    ELSE IF attribute_value[Len(attribute_value)] = " " THEN "LDAPInvalidDnError"
    ELSE IF ValidateScan(attribute_value, 1, STATE_ANY) = -1 THEN "LDAPInvalidDnError"
    ELSE "True"

validate_attribute_value(attribute_value) ==
    IF attribute_value = <<>> THEN "False"
    ELSE IF attribute_value[1] = "#" /\ HexFormRaises(attribute_value) THEN "LDAPInvalidDnError"
    ELSE IF attribute_value[1] = " " THEN "LDAPInvalidDnError"
    ELSE IF attribute_value[Len(attribute_value)] = " " THEN "LDAPInvalidDnError"
    ELSE IF ValidateScan(attribute_value, 1, STATE_ANY) # STATE_ANY THEN "LDAPInvalidDnError"
    ELSE "True"

(***************************************************************************)
(* escape_attribute_value (lines 172-230).                                 *)
(***************************************************************************)
\* the loop of lines 193-222 with line 212 escaping the backslash of a
\* complete hex pair as line 214 does
RECURSIVE EscapeScanHexPairDoubled(_, _, _, _, _)
EscapeScanHexPairDoubled(v, i, st, escaped, buffer) ==
    IF i > Len(v)
    THEN IF st = STATE_ESCAPE THEN escaped \o <<"\\", "\\">>
         ELSE IF st = STATE_ESCAPE_HEX THEN escaped \o <<"\\", "\\">> \o buffer
         ELSE escaped
    ELSE LET c == v[i]
         IN  IF st = STATE_ANY
             THEN IF c = "\\" THEN EscapeScanHexPairDoubled(v, i + 1, STATE_ESCAPE, escaped, buffer)
                  ELSE IF c \in AnySpecials
                       THEN EscapeScanHexPairDoubled(v, i + 1, STATE_ANY, escaped \o <<"\\", c>>, buffer)
                  ELSE EscapeScanHexPairDoubled(v, i + 1, STATE_ANY, escaped \o <<c>>, buffer)
             ELSE IF st = STATE_ESCAPE
             THEN IF c \in hexdigits
                  THEN EscapeScanHexPairDoubled(v, i + 1, STATE_ESCAPE_HEX, escaped, <<c>>)
                  ELSE IF c \in EscapeSpecials
                       THEN EscapeScanHexPairDoubled(v, i + 1, STATE_ANY, escaped \o <<"\\", c>>, buffer)
                  ELSE EscapeScanHexPairDoubled(v, i + 1, STATE_ESCAPE, escaped \o <<"\\", "\\", c>>, buffer)
             ELSE EscapeScanHexPairDoubled(v, i + 1, STATE_ANY, escaped \o <<"\\", "\\">> \o buffer \o <<c>>, <<>>)

\* the loop of lines 193-216 from character i (1-based), and the final
\* state of lines 219-222
RECURSIVE EscapeScan(_, _, _, _, _)
EscapeScan(v, i, st, escaped, buffer) ==
    IF i > Len(v)
    THEN IF st = STATE_ESCAPE THEN escaped \o <<"\\", "\\">>
         ELSE IF st = STATE_ESCAPE_HEX THEN escaped \o <<"\\", "\\">> \o buffer
         ELSE escaped
    ELSE LET c == v[i]
         IN  IF st = STATE_ANY
             THEN IF c = "\\" THEN EscapeScan(v, i + 1, STATE_ESCAPE, escaped, buffer)
                  ELSE IF c \in AnySpecials
                       THEN EscapeScan(v, i + 1, STATE_ANY, escaped \o <<"\\", c>>, buffer)
                  ELSE EscapeScan(v, i + 1, STATE_ANY, escaped \o <<c>>, buffer)
             ELSE IF st = STATE_ESCAPE
             THEN IF c \in hexdigits
                  THEN EscapeScan(v, i + 1, STATE_ESCAPE_HEX, escaped, <<c>>)
                  ELSE IF c \in EscapeSpecials
                       THEN EscapeScan(v, i + 1, STATE_ANY, escaped \o <<"\\", c>>, buffer)
                  ELSE EscapeScan(v, i + 1, STATE_ESCAPE, escaped \o <<"\\", "\\", c>>, buffer)
             ELSE IF c \in hexdigits
                  THEN EscapeScan(v, i + 1, STATE_ANY, escaped \o <<"\\">> \o buffer \o <<c>>, <<>>)
                  ELSE EscapeScan(v, i + 1, STATE_ANY, escaped \o <<"\\", "\\">> \o buffer \o <<c>>, <<>>)

\* lines 176-188: the test of line 183 is on the literal 'c'
HexFormValid(v) ==
    /\ Len(v) % 2 # 0
    /\ \A i \in 1..Len(v) : "c" \in hexdigits

\* lines 224-225
EscapeLeadingSpace(escaped) ==
    IF escaped[1] = " " THEN <<"\\">> \o escaped ELSE escaped

\* lines 227-228
EscapeTrailingSpace(escaped) ==
    IF escaped[Len(escaped)] = " " /\ Len(escaped) > 1 /\ escaped[Len(escaped) - 1] # "\\"
    THEN SubSeq(escaped, 1, Len(escaped) - 1) \o <<"\\", " ">>
    ELSE escaped

\* lines 172-230 without the empty-input return of lines 173-174
escape_attribute_value_no_empty_return(attribute_value) ==
    IF attribute_value # <<>> /\ attribute_value[1] = "#" /\ HexFormValid(attribute_value)
    THEN [exc |-> "", value |-> attribute_value]
    ELSE LET escaped == EscapeScan(attribute_value, 1, STATE_ANY, <<>>, <<>>)
         IN  IF escaped = <<>> THEN [exc |-> "IndexError", value |-> <<>>]
             ELSE [exc |-> "", value |-> EscapeTrailingSpace(EscapeLeadingSpace(escaped))]

\* the result is [exc, value]: exc is "IndexError" when line 224 indexes an
\* empty buffer
escape_attribute_value(attribute_value) ==
    IF attribute_value = <<>> THEN [exc |-> "", value |-> <<>>]
    ELSE IF attribute_value[1] = "#" /\ HexFormValid(attribute_value)
         THEN [exc |-> "", value |-> attribute_value]
    ELSE LET escaped == EscapeScan(attribute_value, 1, STATE_ANY, <<>>, <<>>)
         IN  IF escaped = <<>> THEN [exc |-> "IndexError", value |-> <<>>]
             ELSE [exc |-> "", value |-> EscapeTrailingSpace(EscapeLeadingSpace(escaped))]

(***************************************************************************)
(* split_ava (lines 100-115).                                              *)
(***************************************************************************)
\* what line 115 returns as the value when strip is set: the bound method
\* ava.strip itself (it is not called), which is no string
StripMethod == <<"<bound method str.strip>">>

\* lines 100-115 stripping whatever the strip flag says
split_ava_always_strips(a, e, s) ==
    LET equals == {i \in 1..(Len(a) - 1) : a[i + 1] = "=" /\ a[i] # "\\"}
    IN  IF equals = {}
        THEN [exc |-> "", attribute_type |-> <<>>, attribute_value |-> StripMethod]
        ELSE LET equal == MaxOf(equals)
                 t == Strip(Slice(a, 0, equal))
                 raw == Strip(Slice(a, equal + 1, Len(a)))
                 esc == escape_attribute_value(raw)
             IN  IF e
                 THEN [exc |-> esc.exc, attribute_type |-> t, attribute_value |-> esc.value]
                 ELSE [exc |-> "", attribute_type |-> t, attribute_value |-> raw]

\* the result is [exc, attribute_type, attribute_value]
split_ava(a, e, s) ==
    LET equals == {i \in 1..(Len(a) - 1) : a[i + 1] = "=" /\ a[i] # "\\"}
    IN  IF equals = {}
        THEN [exc |-> "", attribute_type |-> <<>>, attribute_value |-> IF s THEN StripMethod ELSE a]
        ELSE LET equal == MaxOf(equals)
                 t == IF s THEN Strip(Slice(a, 0, equal)) ELSE Slice(a, 0, equal)
                 raw == IF s THEN Strip(Slice(a, equal + 1, Len(a))) ELSE Slice(a, equal + 1, Len(a))
                 esc == escape_attribute_value(raw)
             IN  IF e
                 THEN [exc |-> esc.exc, attribute_type |-> t, attribute_value |-> esc.value]
                 ELSE [exc |-> "", attribute_type |-> t, attribute_value |-> raw]

(***************************************************************************)
(* parse_dn (lines 232-250).                                               *)
(***************************************************************************)
\* line 246 without the "+ 1": the separator is left in the remainder
AdvanceKeepsSeparator(d, a) == Slice(d, Len(a), Len(d))

\* line 246: dn = dn[len(ava) + 1:]
Advance(d, a) == Slice(d, Len(a) + 1, Len(d))

\* lines 237-248 of one iteration of the loop on the remainder d with the
\* result list r, given the result g of get_next_ava and the result sp of
\* split_ava; pc is "loop", "returned" or "raised"
ParseDnOutcome(d, r, g, sp) ==
    LET loc == [dn |-> d, rdns |-> r, ava |-> g.ava, separator |-> g.separator]
    IN  IF g.ava = <<>> THEN [pc |-> "returned", exc |-> ""] @@ loc
        ELSE IF sp.exc # "" THEN [pc |-> "raised", exc |-> sp.exc] @@ loc
        ELSE IF validate_attribute_type(sp.attribute_type) # "True"
             THEN [pc |-> "raised", exc |-> "LDAPInvalidDnError"] @@ loc
        ELSE IF validate_attribute_value(sp.attribute_value) # "True"
             THEN [pc |-> "raised", exc |-> "LDAPInvalidDnError"] @@ loc
        ELSE [pc |-> "loop", exc |-> "",
              dn |-> Advance(d, g.ava),
              rdns |-> Append(r, <<sp.attribute_type, sp.attribute_value, g.separator>>),
              ava |-> g.ava, separator |-> g.separator]

\* one iteration of the loop of lines 235-248
ParseDnIteration(d, r, e, s) ==
    ParseDnOutcome(d, r, get_next_ava(d), split_ava(get_next_ava(d).ava, e, s))

RECURSIVE ParseDnLoop(_, _, _, _)
ParseDnLoop(d, r, e, s) ==
    LET it == ParseDnIteration(d, r, e, s)
    IN  IF it.pc = "loop" THEN ParseDnLoop(it.dn, it.rdns, e, s) ELSE it

parse_dn(d, e, s) == ParseDnLoop(d, <<>>, e, s)

(***************************************************************************)
(* _add_ava (lines 34-51) and to_dn (lines 54-83).  A tuple of _add_ava is *)
(* the pair <<attr_name, value>>.                                          *)
(***************************************************************************)
\* ava.partition('=') of line 39, without the separator
Partition(a) ==
    LET eq == Find(a, "=", 0, Len(a))
    IN  IF eq = -1 THEN [attr_name |-> a, value |-> <<>>]
        ELSE [attr_name |-> Slice(a, 0, eq), value |-> Slice(a, eq + 1, Len(a))]

\* _add_ava(a, dec, rs, sae)
add_ava(a, dec, rs, sae) ==
    IF a = <<>> THEN <<>>
    ELSE LET space == IF sae THEN <<" ">> ELSE <<>>
             attr_name == Partition(a).attr_name
             value == Partition(a).value
         IN  IF dec
             THEN IF rs THEN <<Strip(attr_name), Strip(value)>>
                  ELSE <<attr_name, value>>
             ELSE IF rs THEN Strip(attr_name) \o space \o <<"=">> \o space \o Strip(value)
                  ELSE attr_name \o space \o <<"=">> \o space \o value

\* lines 66-81 without the test of escape_sequence in line 68
ToDnBodyIgnoresEscape(c, comps, comp, esc, dec, rs, sae, sep) ==
    LET keep == [components |-> comps, component |-> Append(comp, c)]
        close == [components |-> Append(comps, add_ava(comp, dec, rs, sae)),
                  component |-> <<>>, escape_sequence |-> esc]
    IN  IF c = "\\" THEN keep @@ [escape_sequence |-> TRUE]
        ELSE IF c = "+" /\ sep THEN close
        ELSE IF c = "," /\ Find(comp, "=", 0, Len(comp)) # -1 THEN close
        ELSE keep @@ [escape_sequence |-> esc /\ c = " "]

\* the body of the loop of to_dn (lines 66-81) for the character c: the list,
\* the component and the escape flag after it
ToDnBody(c, comps, comp, esc, dec, rs, sae, sep) ==
    LET keep == [components |-> comps, component |-> Append(comp, c)]
        close == [components |-> Append(comps, add_ava(comp, dec, rs, sae)),
                  component |-> <<>>, escape_sequence |-> esc]
    IN  IF c = "\\" THEN keep @@ [escape_sequence |-> TRUE]
        ELSE IF esc /\ c # " " THEN keep @@ [escape_sequence |-> FALSE]
        ELSE IF c = "+" /\ sep THEN close
        ELSE IF c = "," /\ Find(comp, "=", 0, Len(comp)) # -1 THEN close
        ELSE keep @@ [escape_sequence |-> esc]

(***************************************************************************)
(* safe_dn (lines 252-257).                                                *)
(***************************************************************************)
\* line 255 without "+ rdn[2]"
SepStrDropped(sep) == <<>>

SepStr(sep) == IF sep = "" THEN <<>> ELSE <<sep>>

RECURSIVE JoinRdns(_, _)
JoinRdns(r, i) ==
    IF i > Len(r) THEN <<>>
    ELSE r[i][1] \o <<"=">> \o r[i][2] \o SepStr(r[i][3]) \o JoinRdns(r, i + 1)

\* the result is [exc, value]
safe_dn(d) ==
    LET p == parse_dn(d, TRUE, TRUE)
    IN  IF p.pc = "raised" THEN [exc |-> p.exc, value |-> <<>>]
        ELSE [exc |-> "", value |-> JoinRdns(p.rdns, 1)]

(***************************************************************************)
(* The inputs a caller passes.                                             *)
(***************************************************************************)
Strs(A, n) == UNION {[1..k -> A] : k \in 0..n}

\* "a" and "1" are hex digits, "z" is a letter that is not one
AttrAlphabet == {"a", "z", "1", "-", "_", " ", "\\", "#", ",", "="}

AttrInputs == Strs(AttrAlphabet, MaxValueLen)

DnAlphabet == {"a", "=", ",", "+", "\\", " "}

AvaPool == {<<"a", "=", "b">>,
            <<" ", "c", " ", "=", " ", "d", " ">>,
            <<"e", "=", "\\", ",", "f">>,
            <<"g", "=", "\\", "+", "h">>,
            <<"1", "=", "i">>}

Joiners == {",", "+"}

Trailers == {<<>>, <<",">>}

RECURSIVE JoinAvas(_, _, _)
JoinAvas(avas, seps, i) ==
    IF i > Len(avas) THEN <<>>
    ELSE avas[i] \o (IF i < Len(avas) THEN <<seps[i]>> ELSE <<>>) \o JoinAvas(avas, seps, i + 1)

BuiltDnsUpTo(n) ==
    UNION {{JoinAvas(avas, seps, 1) \o t : avas \in [1..k -> AvaPool], seps \in [1..(k - 1) -> Joiners], t \in Trailers} : k \in 1..n}

BuiltDns == BuiltDnsUpTo(MaxAvas)

DnInputs == Strs(DnAlphabet, MaxDnLen) \cup BuiltDns

ToDnInputs == Strs(DnAlphabet, MaxToDnLen)

\* the arguments of the runs of parse_dn that are followed to their end
LoopInputs == Strs(DnAlphabet, MaxLoopDnLen) \cup BuiltDnsUpTo(MaxLoopAvas)

(***************************************************************************)
(* The calls.  input is the argument, orig the string the caller started   *)
(* from, src where input comes from ("caller", or the function whose       *)
(* result was passed back in); fn is the function called, pc its position, *)
(* ret a returned truth value, out a returned string.  dn, rdns, ava and   *)
(* separator are the locals of parse_dn, consumed the list of the          *)
(* (ava, separator) pairs of the iterations that appended a triple.        *)
(***************************************************************************)
Idle ==
    /\ fn = "none" /\ pc = "ready" /\ ret = "none" /\ out = <<>>
    /\ escape = FALSE /\ strip = TRUE
    /\ dn = <<>> /\ rdns = <<>> /\ ava = <<>> /\ separator = "" /\ consumed = <<>>
    /\ iterator = <<>>
    /\ decompose = FALSE /\ remove_space = FALSE
    /\ space_around_equal = FALSE /\ separate_rdn = FALSE
    /\ components = <<>> /\ component = <<>> /\ escape_sequence = FALSE

InitAttr ==
    /\ input \in AttrInputs
    /\ orig = input /\ src = "caller"
    /\ Idle

InitDn ==
    /\ input \in DnInputs
    /\ orig = input /\ src = "caller"
    /\ Idle

InitToDn ==
    /\ input \in ToDnInputs
    /\ orig = input /\ src = "caller"
    /\ Idle

InitLoop ==
    /\ input \in LoopInputs
    /\ orig = input /\ src = "caller"
    /\ Idle

CallValidateAttributeType ==
    /\ pc = "ready"
    /\ fn' = "validate_attribute_type"
    /\ LET r == validate_attribute_type(input)
       IN  /\ pc' = IF r = "LDAPInvalidDnError" THEN "raised" ELSE "returned"
           /\ ret' = IF r = "LDAPInvalidDnError" THEN "none" ELSE r
    /\ UNCHANGED <<input, orig, src, out, escape, strip, dn, rdns, ava, separator, consumed>>
    /\ UNCHANGED toDnVars

CallValidateAttributeValue ==
    /\ pc = "ready"
    /\ fn' = "validate_attribute_value"
    /\ LET r == validate_attribute_value(input)
       IN  /\ pc' = IF r = "LDAPInvalidDnError" THEN "raised" ELSE "returned"
           /\ ret' = IF r = "LDAPInvalidDnError" THEN "none" ELSE r
    /\ UNCHANGED <<input, orig, src, out, escape, strip, dn, rdns, ava, separator, consumed>>
    /\ UNCHANGED toDnVars

CallEscapeAttributeValue ==
    /\ pc = "ready"
    /\ fn' = "escape_attribute_value"
    /\ LET r == escape_attribute_value(input)
       IN  /\ pc' = IF r.exc # "" THEN "raised" ELSE "returned"
           /\ out' = r.value
    /\ UNCHANGED <<input, orig, src, ret, escape, strip, dn, rdns, ava, separator, consumed>>
    /\ UNCHANGED toDnVars

\* parse_dn(input, escape=e, strip=s) up to the loop of line 235
CallParseDn ==
    /\ pc = "ready"
    /\ \E e \in BOOLEAN, s \in BOOLEAN :
          /\ escape' = e
          /\ strip' = s
    /\ fn' = "parse_dn"
    /\ pc' = "loop"
    /\ dn' = input
    /\ rdns' = <<>>
    /\ UNCHANGED <<input, orig, src, ret, out, ava, separator, consumed>>
    /\ UNCHANGED toDnVars

\* one iteration of the loop of parse_dn
ParseDnStep ==
    /\ pc = "loop"
    /\ fn = "parse_dn"
    /\ \E g \in {get_next_ava(dn)} :
       \E sp \in {split_ava(g.ava, escape, strip)} :
       \E it \in {ParseDnOutcome(dn, rdns, g, sp)} :
          /\ pc' = it.pc
          /\ dn' = it.dn
          /\ rdns' = it.rdns
          /\ ava' = it.ava
          /\ separator' = it.separator
          /\ consumed' = IF it.pc = "loop"
                         THEN Append(consumed, [ava |-> it.ava, separator |-> it.separator])
                         ELSE consumed
    /\ UNCHANGED <<input, orig, src, fn, ret, out, escape, strip>>
    /\ UNCHANGED toDnVars

CallSafeDn ==
    /\ pc = "ready"
    /\ fn' = "safe_dn"
    /\ LET r == safe_dn(input)
       IN  /\ pc' = IF r.exc # "" THEN "raised" ELSE "returned"
           /\ out' = r.value
    /\ UNCHANGED <<input, orig, src, ret, escape, strip, dn, rdns, ava, separator, consumed>>
    /\ UNCHANGED toDnVars

\* get_next_ava(input), called on its own
CallGetNextAva ==
    /\ pc = "ready"
    /\ fn' = "get_next_ava"
    /\ pc' = "returned"
    /\ ava' = get_next_ava(input).ava
    /\ separator' = get_next_ava(input).separator
    /\ UNCHANGED <<input, orig, src, ret, out, escape, strip, dn, rdns, consumed>>
    /\ UNCHANGED toDnVars

\* to_dn(input, decompose=d, remove_space=r, space_around_equal=e,
\* separate_rdn=s) up to the loop of line 65
CallToDn ==
    /\ pc = "ready"
    /\ \E d \in BOOLEAN, r \in BOOLEAN, e \in BOOLEAN, s \in BOOLEAN :
          /\ decompose' = d
          /\ remove_space' = r
          /\ space_around_equal' = e
          /\ separate_rdn' = s
    /\ fn' = "to_dn"
    /\ pc' = "loop"
    /\ iterator' = input
    /\ components' = <<>>
    /\ component' = <<>>
    /\ escape_sequence' = FALSE
    /\ UNCHANGED <<input, orig, src, ret, out, escape, strip, dn, rdns, ava, separator, consumed>>

\* one iteration of the loop of to_dn, or lines 82-83 when the iterator is
\* exhausted
ToDnStep ==
    /\ pc = "loop"
    /\ fn = "to_dn"
    /\ IF iterator = <<>>
       THEN /\ components' = Append(components, add_ava(component, decompose, remove_space, space_around_equal))
            /\ pc' = "returned"
            /\ UNCHANGED <<iterator, component, escape_sequence>>
       ELSE /\ \E b \in {ToDnBody(Head(iterator), components, component, escape_sequence,
                                  decompose, remove_space, space_around_equal, separate_rdn)} :
                  /\ components' = b.components
                  /\ component' = b.component
                  /\ escape_sequence' = b.escape_sequence
            /\ iterator' = Tail(iterator)
            /\ pc' = "loop"
    /\ UNCHANGED <<input, orig, src, fn, ret, out, escape, strip, dn, rdns, ava, separator, consumed>>
    /\ UNCHANGED <<decompose, remove_space, space_around_equal, separate_rdn>>

\* the caller passes the string a function returned to the next call
PassBack ==
    /\ pc = "returned"
    /\ fn \in {"escape_attribute_value", "safe_dn"}
    /\ src = "caller"
    /\ input' = out
    /\ src' = fn
    /\ fn' = "none" /\ pc' = "ready" /\ ret' = "none" /\ out' = <<>>
    /\ UNCHANGED <<orig, escape, strip, dn, rdns, ava, separator, consumed>>
    /\ UNCHANGED toDnVars

NextAttr ==
    \/ CallValidateAttributeType
    \/ CallValidateAttributeValue
    \/ CallEscapeAttributeValue
    \/ PassBack

NextDn ==
    \/ CallParseDn
    \/ ParseDnStep
    \/ CallSafeDn
    \/ CallGetNextAva
    \/ PassBack

SpecAttr == InitAttr /\ [][NextAttr]_vars

SpecDn == InitDn /\ [][NextDn]_vars

NextToDn ==
    \/ CallToDn
    \/ ToDnStep

NextLoop ==
    \/ CallParseDn
    \/ ParseDnStep

SpecToDn == InitToDn /\ [][NextToDn]_vars

\* parse_dn is a sequential loop: once called, its next iteration runs
SpecLoop == InitLoop /\ [][NextLoop]_vars /\ WF_vars(ParseDnStep)

(***************************************************************************)
(* Helpers of the properties.                                              *)
(***************************************************************************)
Finished == pc \in {"returned", "raised"}

\* s ends with an odd number of backslashes: the character after s is escaped
RECURSIVE OddBackslashTail(_)
OddBackslashTail(s) ==
    IF s = <<>> \/ s[Len(s)] # "\\" THEN FALSE
    ELSE ~OddBackslashTail(SubSeq(s, 1, Len(s) - 1))

\* the positions of the ',' and '+' of s that no backslash escapes
UnescapedSeparators(s) ==
    {i \in 1..Len(s) : s[i] \in {",", "+"} /\ ~OddBackslashTail(SubSeq(s, 1, i - 1))}

EscapedSeparators(s) ==
    {i \in 1..Len(s) : s[i] \in {",", "+"} /\ OddBackslashTail(SubSeq(s, 1, i - 1))}

\* a DN of AVAs with a letter-only type and a value of letters and digits,
\* joined by ',' and '+', and the triples its AVAs stand for
PlainAva(a) ==
    \E i \in 2..(Len(a) - 1) :
        /\ a[i] = "="
        /\ \A j \in 1..(i - 1) : a[j] \in Letters
        /\ \A j \in (i + 1)..Len(a) : a[j] \in Letters \cup Digits

RECURSIVE PlainDn(_)
PlainDn(d) ==
    LET seps == {i \in 1..Len(d) : d[i] \in {",", "+"}}
    IN  IF seps = {} THEN PlainAva(d)
        ELSE /\ PlainAva(SubSeq(d, 1, MinOf(seps) - 1))
             /\ PlainDn(SubSeq(d, MinOf(seps) + 1, Len(d)))

PlainTriple(a, sep) ==
    LET i == CHOOSE i \in 1..Len(a) : a[i] = "="
    IN  <<SubSeq(a, 1, i - 1), SubSeq(a, i + 1, Len(a)), sep>>

RECURSIVE PlainTriples(_)
PlainTriples(d) ==
    LET seps == {i \in 1..Len(d) : d[i] \in {",", "+"}}
    IN  IF seps = {} THEN <<PlainTriple(d, "")>>
        ELSE <<PlainTriple(SubSeq(d, 1, MinOf(seps) - 1), d[MinOf(seps)])>>
             \o PlainTriples(SubSeq(d, MinOf(seps) + 1, Len(d)))

\* the consumed AVA substrings with their separators, put back together
RECURSIVE ConsumedText(_, _)
ConsumedText(c, i) ==
    IF i > Len(c) THEN <<>>
    ELSE c[i].ava \o (IF c[i].separator = "" THEN <<>> ELSE <<c[i].separator>>) \o ConsumedText(c, i + 1)

RECURSIVE ConsumedLen(_, _)
ConsumedLen(c, i) ==
    IF i > Len(c) THEN 0
    ELSE Len(c[i].ava) + (IF c[i].separator \in {",", "+"} THEN 1 ELSE 0) + ConsumedLen(c, i + 1)

Range(s) == {s[i] : i \in 1..Len(s)}

(***************************************************************************)
(* C1: validate_attribute_value(escape_attribute_value(v)) never raises    *)
(* and returns true for every non-empty v.                                 *)
(***************************************************************************)
C1_EscapedValueValidates ==
    /\ (fn = "escape_attribute_value" /\ src = "caller") => pc # "raised"
    /\ (fn = "validate_attribute_value" /\ src = "escape_attribute_value" /\ Finished) =>
          /\ pc = "returned"
          /\ orig # <<>> => ret = "True"

(***************************************************************************)
(* C2: a ',' or '+' escaped by a backslash is never taken as a boundary by *)
(* parse_dn, and a DN with an escaped separator in a value yields as many  *)
(* AVAs as it has unescaped separators plus one.                           *)
(***************************************************************************)
C2_EscapedSeparatorIsNoBoundary ==
    fn = "parse_dn" =>
        /\ separator # "" => ~OddBackslashTail(ava)
        /\ (pc = "returned" /\ EscapedSeparators(input) # {}) =>
              Len(rdns) = Cardinality(UnescapedSeparators(input)) + 1

(***************************************************************************)
(* C3: for every DN d that parse_dn accepts with its default flags,        *)
(* safe_dn(d) does not raise, parse_dn(safe_dn(d)) does not raise and      *)
(* safe_dn(safe_dn(d)) = safe_dn(d).                                       *)
(***************************************************************************)
C3_SafeDnRoundTrip ==
    parse_dn(orig, FALSE, TRUE).pc = "returned" =>
        /\ (fn = "safe_dn" /\ src = "caller") => pc = "returned"
        /\ (fn = "parse_dn" /\ src = "safe_dn") => pc # "raised"
        /\ (fn = "safe_dn" /\ src = "safe_dn") => (pc = "returned" /\ out = input)

C3_Witness ==
    /\ fn = "safe_dn" /\ src = "safe_dn" /\ pc = "returned"
    /\ parse_dn(orig, FALSE, TRUE).pc = "returned"
    /\ out = input
    /\ input # orig
    /\ {"\\", ",", "+"} \subseteq Range(orig)

(***************************************************************************)
(* C4: for a value that starts with '#', validate_attribute_value returns  *)
(* true when a non-zero even number of hex digits follows, and raises when *)
(* a character after '#' is no hex digit or the number of digits is odd.   *)
(***************************************************************************)
C4_HexFormAccepted ==
    (fn = "validate_attribute_value" /\ Finished /\ Len(input) > 1 /\ input[1] = "#") =>
        IF (\A i \in 2..Len(input) : input[i] \in hexdigits) /\ (Len(input) - 1) % 2 = 0
        THEN pc = "returned" /\ ret = "True"
        ELSE pc = "raised"

(***************************************************************************)
(* C5: for a DN of well-formed plain AVAs joined by ',' and '+', parse_dn  *)
(* returns one triple per AVA, in source order, with the joining character *)
(* that followed it as separator and '' for the last, wherever the         *)
(* '+'-joined RDN stands.                                                  *)
(***************************************************************************)
C5_PlainDnTriples ==
    (fn = "parse_dn" /\ Finished /\ PlainDn(input)) =>
        (pc = "returned" /\ rdns = PlainTriples(input))

(***************************************************************************)
(* C6: whenever parse_dn returns normally the remainder is empty and the   *)
(* lengths of the consumed AVA substrings, plus one for each AVA with a    *)
(* ',' or '+' separator, sum to the length of the input; at every point of *)
(* the loop the consumed text followed by the remainder is the input.      *)
(***************************************************************************)
C6_ConsumesWholeInput ==
    fn = "parse_dn" =>
        /\ ConsumedText(consumed, 1) \o dn = input
        /\ pc = "returned" => (dn = <<>> /\ ConsumedLen(consumed, 1) = Len(input))

C6_Witness ==
    /\ fn = "parse_dn" /\ pc = "returned"
    /\ Len(consumed) = 3
    /\ consumed[1].separator = "+"
    /\ consumed[2].separator = ","
    /\ consumed[3].separator = ""
    /\ dn = <<>>

(***************************************************************************)
(* C7: in every non-empty result of parse_dn the last AVA has separator    *)
(* '', also for inputs that end with ','.                                  *)
(***************************************************************************)
C7_LastSeparatorEmpty ==
    (fn = "parse_dn" /\ pc = "returned" /\ rdns # <<>>) => rdns[Len(rdns)][3] = ""

(***************************************************************************)
(* C8: every triple of a result of parse_dn, at every point of the loop    *)
(* and for any flags, has a non-empty type of characters [A-Za-z0-9-] that *)
(* starts with a letter, a non-empty value that validate_attribute_value   *)
(* accepts, and a separator among ',', '+', ''.                            *)
(***************************************************************************)
C8_AvaInvariant ==
    fn = "parse_dn" =>
        \A i \in 1..Len(rdns) :
            /\ rdns[i][1] # <<>>
            /\ Range(rdns[i][1]) \subseteq Letters \cup Digits \cup {"-"}
            /\ rdns[i][1][1] \in Letters
            /\ rdns[i][2] # <<>>
            /\ validate_attribute_value(rdns[i][2]) = "True"
            /\ rdns[i][3] \in {",", "+", ""}

C8_Witness ==
    /\ fn = "parse_dn" /\ pc = "loop"
    /\ escape /\ ~strip
    /\ Len(rdns) = 2
    /\ "\\" \in Range(rdns[1][2])
    /\ dn # <<>>

(***************************************************************************)
(* C9: validate_attribute_type and validate_attribute_value return false   *)
(* if and only if their input is empty; for a non-empty input they return  *)
(* true or raise, and they never raise for an empty one.                   *)
(***************************************************************************)
C9_TwoTierSignal ==
    (fn \in {"validate_attribute_type", "validate_attribute_value"} /\ Finished) =>
        /\ (pc = "returned" /\ ret = "False") <=> input = <<>>
        /\ input # <<>> => ((pc = "returned" /\ ret = "True") \/ pc = "raised")

C9_Witness ==
    /\ fn = "validate_attribute_value" /\ pc = "returned"
    /\ input = <<>>
    /\ ret = "False"

(***************************************************************************)
(* C10: for a non-empty t, validate_attribute_type(t) returns true exactly *)
(* when every character of t is in [A-Za-z0-9-] and the first is a letter, *)
(* and raises otherwise; the string it was given is left as it is.         *)
(***************************************************************************)
C10_TypeAcceptedExactly ==
    (fn = "validate_attribute_type" /\ Finished /\ input # <<>>) =>
        /\ IF Range(input) \subseteq Letters \cup Digits \cup {"-"} /\ input[1] \in Letters
           THEN pc = "returned" /\ ret = "True"
           ELSE pc = "raised"
        /\ src = "caller" => input = orig

C10_Witness ==
    /\ fn = "validate_attribute_type" /\ pc = "returned" /\ ret = "True"
    /\ Len(input) = 3
    /\ input[1] \in Letters
    /\ input[2] = "-"
    /\ input[3] \in Digits

(***************************************************************************)
(* C11: escape_attribute_value never fails: it returns a string for every  *)
(* input, a non-empty one for a non-empty input (so the buffer indexed     *)
(* after the scan is never empty) and the empty one for the empty input.   *)
(***************************************************************************)
C11_EscapeNeverFails ==
    (fn = "escape_attribute_value" /\ Finished) =>
        /\ pc = "returned"
        /\ input = <<>> <=> out = <<>>

C11_Witness ==
    /\ fn = "escape_attribute_value" /\ pc = "returned"
    /\ input = <<"\\">>
    /\ out = <<"\\", "\\">>

(***************************************************************************)
(* C12: escape_attribute_value returns a value that starts with '#'        *)
(* unchanged if and only if every character after the '#' is a hex digit   *)
(* and the digits form whole pairs; every other value that starts with '#' *)
(* comes out with its leading '#' as '\#'.                                 *)
(***************************************************************************)
C12_HexFormUnchangedExactly ==
    (fn = "escape_attribute_value" /\ pc = "returned" /\ input # <<>> /\ input[1] = "#") =>
        IF (\A i \in 2..Len(input) : input[i] \in hexdigits) /\ (Len(input) - 1) % 2 = 0
        THEN out = input
        ELSE Len(out) >= 2 /\ out[1] = "\\" /\ out[2] = "#"

(***************************************************************************)
(* C13: a backslash followed by a character that is neither a hex digit    *)
(* nor an escapable special character comes out as two backslashes and     *)
(* that character, and the escaper is back in state ANY: plain characters  *)
(* after it are copied and nothing is emitted at the end of the input.     *)
(***************************************************************************)
PlainChar(c) == c \notin AnySpecials \cup {"\\", " "}

C13_InvalidEscapeBackToAny ==
    (/\ fn = "escape_attribute_value" /\ pc = "returned"
     /\ Len(input) >= 2
     /\ input[1] = "\\"
     /\ input[2] \notin hexdigits \cup EscapeSpecials
     /\ \A i \in 3..Len(input) : PlainChar(input[i])) =>
        out = <<"\\", "\\">> \o SubSeq(input, 2, Len(input))

(***************************************************************************)
(* C14: the result of escape_attribute_value on a non-empty value does not *)
(* begin with a space and does not end with an unescaped space, a space    *)
(* being escaped when an odd number of backslashes stands before it (the   *)
(* validator reads it in state ESCAPE).                                    *)
(***************************************************************************)
C14_NoUnescapedOuterSpace ==
    (fn = "escape_attribute_value" /\ pc = "returned" /\ input # <<>>) =>
        /\ out[1] # " "
        /\ out[Len(out)] = " " => OddBackslashTail(SubSeq(out, 1, Len(out) - 1))

(***************************************************************************)
(* C15: for a non-empty value that does not start with '#',                *)
(* validate_attribute_value returns true exactly when the first and the    *)
(* last character are no spaces and the value is a sequence of plain       *)
(* characters, backslash + escapable special character, and backslash +    *)
(* two hex digits (the run of the state machine fails nowhere and ends in  *)
(* ANY); otherwise, as for a dangling backslash or backslash + one hex     *)
(* digit at the end, it raises.                                            *)
(***************************************************************************)
RECURSIVE WellEscaped(_, _)
WellEscaped(v, i) ==
    \/ i > Len(v)
    \/ /\ v[i] \notin AnySpecials \cup {"\\"}
       /\ WellEscaped(v, i + 1)
    \/ /\ v[i] = "\\" /\ i + 1 <= Len(v)
       /\ v[i + 1] \in {" ", "\"", "#", "+", ",", ";", "<", "=", ">", "\\", "NUL"}
       /\ WellEscaped(v, i + 2)
    \/ /\ v[i] = "\\" /\ i + 2 <= Len(v)
       /\ v[i + 1] \in hexdigits /\ v[i + 2] \in hexdigits
       /\ WellEscaped(v, i + 3)

C15_ValueAcceptedExactly ==
    (fn = "validate_attribute_value" /\ Finished /\ input # <<>> /\ input[1] # "#") =>
        IF input[1] # " " /\ input[Len(input)] # " " /\ WellEscaped(input, 1)
        THEN pc = "returned" /\ ret = "True"
        ELSE pc = "raised"

C15_Witness ==
    /\ fn = "validate_attribute_value" /\ pc = "raised"
    /\ Len(input) = 4
    /\ input[1] = "z"
    /\ input[3] = "\\"
    /\ input[4] \in hexdigits

(***************************************************************************)
(* C19: the escaper is the identity on valid values: when                  *)
(* validate_attribute_value(v) returns true, escape_attribute_value(v) = v.*)
(***************************************************************************)
C19_EscapeIdentityOnValid ==
    (fn = "escape_attribute_value" /\ Finished /\ validate_attribute_value(input) = "True") =>
        (pc = "returned" /\ out = input)

C19_Witness ==
    /\ fn = "escape_attribute_value" /\ pc = "returned" /\ src = "caller"
    /\ validate_attribute_value(input) = "True"
    /\ Len(input) = 4
    /\ input[1] = "\\" /\ input[2] \in hexdigits /\ input[3] \in hexdigits
    /\ input[4] = "z"
    /\ out = input

(***************************************************************************)
(* C16: parse_dn terminates: each iteration of its loop raises, or ends    *)
(* the loop on an empty AVA, which happens only when the remainder is      *)
(* empty, or strictly shortens the remainder; at most len(dn) iterations   *)
(* append a triple (len(dn) + 1 iterations in all), and a call eventually  *)
(* returns or raises.                                                      *)
(***************************************************************************)
ParseDnIterationOutcome ==
    (fn = "parse_dn" /\ pc = "loop") =>
        \/ pc' = "raised"
        \/ pc' = "returned" /\ ava' = <<>> /\ dn = <<>>
        \/ pc' = "loop" /\ Len(dn') < Len(dn)

C16_ParseDnTerminates ==
    /\ [][ParseDnIterationOutcome]_vars
    /\ [](fn = "parse_dn" => Len(consumed) + Len(dn) <= Len(input))
    /\ (fn = "parse_dn" /\ pc = "loop") ~> (fn = "parse_dn" /\ Finished)

C16_Witness ==
    /\ fn = "parse_dn" /\ pc = "returned"
    /\ Len(consumed) = 2
    /\ dn = <<>>
    /\ consumed[1].separator = ","
    /\ consumed[2].separator = ","

(***************************************************************************)
(* C17: get_next_ava returns, for every remainder: the prefix up to the    *)
(* first '+' with separator '+' if that '+' stands before the first ','    *)
(* and an '=' stands between them; otherwise the prefix up to the first    *)
(* ',' with separator ',' if there is a ',' anywhere, index 0 included;    *)
(* otherwise the whole remainder with separator ''.                        *)
(***************************************************************************)
FirstOf(s, c) == MinOf({i \in 1..Len(s) : s[i] = c})

DecisionRule(s) ==
    IF /\ "," \in Range(s) /\ "+" \in Range(s)
       /\ FirstOf(s, "+") < FirstOf(s, ",")
       /\ \E i \in (FirstOf(s, "+") + 1)..(FirstOf(s, ",") - 1) : s[i] = "="
    THEN [ava |-> SubSeq(s, 1, FirstOf(s, "+") - 1), separator |-> "+"]
    ELSE IF "," \in Range(s)
         THEN [ava |-> SubSeq(s, 1, FirstOf(s, ",") - 1), separator |-> ","]
         ELSE [ava |-> s, separator |-> ""]

C17_BoundaryDecisionRule ==
    (fn = "get_next_ava" /\ pc = "returned") =>
        (ava = DecisionRule(input).ava /\ separator = DecisionRule(input).separator)

(***************************************************************************)
(* C18: to_dn closes a component only at a delimiter read while escape     *)
(* mode is off.  A backslash turns escape mode on, and it stays on across  *)
(* the spaces that follow until the next character that is not a space; a  *)
(* ',' or '+' read while it is on is kept in the component.  While it is   *)
(* off a '+' closes the component exactly when separate_rdn is set and a   *)
(* ',' exactly when the component so far contains '='.                     *)
(***************************************************************************)
\* this step appends the component to the list and starts a new one,
\* without the character read
ClosesComponent ==
    /\ Len(components') = Len(components) + 1
    /\ component' = <<>>

\* this step keeps the character read in the component
KeepsCharacter ==
    /\ components' = components
    /\ component' = Append(component, Head(iterator))

ToDnStepRule ==
    (fn = "to_dn" /\ pc = "loop" /\ iterator # <<>>) =>
        LET c == Head(iterator)
        IN  /\ escape_sequence' = (c = "\\" \/ (escape_sequence /\ c = " "))
            /\ ClosesComponent \/ KeepsCharacter
            /\ ClosesComponent <=>
                  /\ ~escape_sequence
                  /\ \/ c = "+" /\ separate_rdn
                     \/ c = "," /\ "=" \in Range(component)

C18_ClosesOnlyOutsideEscape == [][ToDnStepRule]_vars

\* a ',' read in escape mode, after a backslash and a space, was kept in a
\* component that contains '='
C18_Witness ==
    /\ fn = "to_dn"
    /\ components = <<>>
    /\ component = <<"=", "\\", " ", ",">>
    /\ ~escape_sequence

(***************************************************************************)
(* C20: whenever parse_dn(d, escape=false, strip=false) returns normally,  *)
(* type + '=' + value + separator over the returned triples, in order, is  *)
(* d.                                                                      *)
(***************************************************************************)
C20_NoCharacterLost ==
    (fn = "parse_dn" /\ pc = "returned" /\ ~escape /\ ~strip) => JoinRdns(rdns, 1) = input

C20_Witness ==
    /\ fn = "parse_dn" /\ pc = "returned" /\ ~escape /\ ~strip
    /\ Len(rdns) = 3
    /\ {"\\", "+", ","} \subseteq Range(input)
    /\ JoinRdns(rdns, 1) = input

====
